---------------------------- MODULE Spec2Model ----------------------------
(***************************************************************************)
(* Price-index engines of the e-commerce pipeline:                         *)
(*   - PriceIndexCalculator.calculate_cavallo_index  (geometric mean)      *)
(*   - PriceIndexCalculator.calculate_tmall_index    (category weighted)   *)
(*   - PriceIndexCalculator.save_indices / save_indices_to_local_file      *)
(*     (the merge of the two record lists and the hand-off to the sinks)   *)
(*                                                                         *)
(* Numbers.  Prices and weights are small naturals.  A Tmall index is an   *)
(* exact rational rounded to 4 decimals and kept as an integer count of    *)
(* 1e-4 units (100.0 is 1000000).  A Cavallo index exp(mean(log r)) * 100  *)
(* is kept exactly as [num, den, n], standing for                          *)
(* 100 * (num / den) ^ (1 / n), the geometric mean of the n ratios whose   *)
(* numerators multiply to num and denominators to den.                     *)
(***************************************************************************)
EXTENDS Integers, Sequences, FiniteSets

(* ------------------------------ bounds --------------------------------- *)
MaxDate == 2
MaxRows == 2
MaxBatch == 2

(* None, and the date min() yields over an empty table: the date of no fact *)
NoDate == 0

Dates == 1..MaxDate
Products == {"p1", "p2"}
Categories == {1, 2}
Prices == {0, 1, 2}
Weights == {0, 1, 3}

VARIABLES
    facts,            \* table daily_prices, in the order queries return its rows
    categories,       \* table categories: rows <<category_id, weight>>
    specified,        \* the base_date argument of the engines (NoDate = None)
    batch_size,       \* batch_size of the retrieval loop
    cav_pc,           \* position in calculate_cavallo_index
    cav_base,         \* its local base_date
    base_prices,      \* its local base_prices, a dict as a sequence of <<k, v>>
    all_price_rows,   \* its local all_price_rows
    cav_i,            \* loop variable i of the batch loop
    cavallo_indices,  \* what calculate_cavallo_index returned
    cav_exc,          \* the exception the call met ("" when none)
    tm_pc,            \* position in calculate_tmall_index
    tm_base,          \* its local base_date
    category_weights, \* its local category_weights (dict)
    base_avg,         \* its local base_avg (dict)
    dates,            \* its local dates
    tm_k,             \* number of dates the loop has taken from dates
    results,          \* its local results
    tm_log,           \* per date taken: what _get_category_averages returned
    tmall_indices,    \* what calculate_tmall_index returned
    tm_exc,           \* the exception the call met ("" when none)
    mg_pc,            \* position in main's save steps
    cav_in,           \* cavallo_indices as passed to the save functions
    tm_in,            \* tmall_indices as passed to the save functions
    sink_rows,        \* data handed to insert_data('price_indices', data)
    csv_rows,         \* records written by save_indices_to_local_file
    mg_exc,           \* the exception save_indices raised ("" when none)
    uploaded          \* the two record lists put to object storage

cavVars == <<cav_pc, cav_base, base_prices, all_price_rows, cav_i,
             cavallo_indices, cav_exc>>
tmVars == <<tm_pc, tm_base, category_weights, base_avg, dates, tm_k, results,
            tm_log, tmall_indices, tm_exc>>
mgVars == <<mg_pc, cav_in, tm_in, sink_rows, csv_rows, mg_exc, uploaded>>
inVars == <<facts, categories, specified, batch_size>>
vars == <<inVars, cavVars, tmVars, mgVars>>

(* ------------------------- sequences and dicts ------------------------- *)
Range(s) == {s[i] : i \in DOMAIN s}

SeqsUpTo(S, n) == UNION {[1..k -> S] : k \in 0..n}

Min(S) == CHOOSE x \in S : \A y \in S : x <= y

RECURSIVE SortedSeq(_)
SortedSeq(S) == IF S = {} THEN <<>> ELSE <<Min(S)>> \o SortedSeq(S \ {Min(S)})

(* a Python dict is a sequence of <<key, value>> with distinct keys, in    *)
(* insertion order                                                         *)
Keys(d) == [i \in DOMAIN d |-> d[i][1]]
HasKey(d, k) == \E i \in DOMAIN d : d[i][1] = k
Get(d, k) == d[CHOOSE i \in DOMAIN d : d[i][1] = k][2]
DictSet(d, k, v) ==
    IF HasKey(d, k)
    THEN [i \in DOMAIN d |-> IF d[i][1] = k THEN <<k, v>> ELSE d[i]]
    ELSE Append(d, <<k, v>>)

RECURSIVE DictFrom(_, _)
DictFrom(d, pairs) ==
    IF pairs = <<>> THEN d
    ELSE DictFrom(DictSet(d, Head(pairs)[1], Head(pairs)[2]), Tail(pairs))

(* dict(result) *)
Dict(pairs) == DictFrom(<<>>, pairs)

(* date.strftime('%Y-%m-%d') and datetime.strptime(s, '%Y-%m-%d').date():  *)
(* the string is the zero-padded day field, year and month being fixed     *)
Strftime(d) == <<d \div 10, d % 10>>
Strptime(s) == s[1] * 10 + s[2]
StrLess(s, t) == s[1] < t[1] \/ (s[1] = t[1] /\ s[2] < t[2])

(* the rows <<k, w[k]>> of a function w with a domain of numbers, by key *)
SortedPairs(w) ==
    LET ks == SortedSeq(DOMAIN w) IN [i \in DOMAIN ks |-> <<ks[i], w[ks[i]]>>]

(* index values: a decimal with 4 places (count of 1e-4 units), a          *)
(* geometric mean 100 * (num / den) ^ (1 / n), Python's None, and the mark *)
(* of a key that a dict does not hold                                      *)
Dec4(v) == [kind |-> "dec4", v |-> v]
Geo(num, den, n) == [kind |-> "geo", num |-> num, den |-> den, n |-> n]
None == [kind |-> "none"]
Missing == [kind |-> "missing"]

RECURSIVE SumOf(_, _)
SumOf(rows, field) ==
    IF rows = <<>> THEN 0 ELSE Head(rows)[field] + SumOf(Tail(rows), field)

(* ------------------------- exact rationals <<num, den>> ---------------- *)
RECURSIVE GCD(_, _)
GCD(a, b) == IF b = 0 THEN a ELSE GCD(b, a % b)

Norm(q) == LET g == GCD(q[1], q[2]) IN IF g = 0 THEN q ELSE <<q[1] \div g, q[2] \div g>>
RatAdd(a, b) == Norm(<<a[1] * b[2] + b[1] * a[2], a[2] * b[2]>>)
RatMul(a, b) == Norm(<<a[1] * b[1], a[2] * b[2]>>)
RatDiv(a, b) == Norm(<<a[1] * b[2], a[2] * b[1]>>)

(* k further decimal digits of acc + r / den, by long division *)
RECURSIVE Scale(_, _, _, _)
Scale(acc, r, den, k) ==
    IF k = 0 THEN <<acc, r>>
    ELSE Scale(acc * 10 + (r * 10) \div den, (r * 10) % den, den, k - 1)

(* round(x, 4) of the rational x >= 0, as a count of 1e-4 units, ties to even *)
Round4(q) ==
    LET p == Scale(q[1] \div q[2], q[1] % q[2], q[2], 4)
    IN  IF 2 * p[2] > q[2] \/ (2 * p[2] = q[2] /\ p[1] % 2 = 1)
        THEN p[1] + 1 ELSE p[1]

(* ------------------------------ queries -------------------------------- *)
(* SELECT min(date) FROM daily_prices *)
QueryMinDate(f) ==
    IF f = <<>> THEN NoDate ELSE Min({f[i].date : i \in DOMAIN f})

(* SELECT product_id, price FROM daily_prices WHERE date = %(date)s *)
QueryBasePrices(f, d) ==
    LET AtDate(r) == r.date = d
        rows == SelectSeq(f, AtDate)
    IN  [i \in DOMAIN rows |-> <<rows[i].product_id, rows[i].price>>]

(* SELECT date, product_id, price FROM daily_prices WHERE product_id IN .. *)
QueryPricesIn(f, batch) ==
    LET InBatch(r) == r.product_id \in Range(batch)
        rows == SelectSeq(f, InBatch)
    IN  [i \in DOMAIN rows |->
            [date |-> rows[i].date, product_id |-> rows[i].product_id,
             price |-> rows[i].price]]

(* SELECT category_id, weight FROM categories *)
QueryCategoryWeights(c) == c

(* SELECT category_id, avg(price) FROM daily_prices WHERE date = %(date)s  *)
(* GROUP BY category_id; an average is the exact rational <<sum, count>>   *)
QueryCategoryAverages(f, d) ==
    LET AtDate(r) == r.date = d
        rows == SelectSeq(f, AtDate)
        cats == SortedSeq({rows[i].category_id : i \in DOMAIN rows})
    IN  [k \in DOMAIN cats |->
            LET OfCat(r) == r.category_id = cats[k]
                grp == SelectSeq(rows, OfCat)
            IN  <<cats[k], <<SumOf(grp, "price"), Len(grp)>> >>]

(* SELECT DISTINCT date FROM daily_prices ORDER BY date *)
QueryAllDatesUnordered(f) == [i \in DOMAIN f |-> f[i].date]
QueryAllDates(f) == SortedSeq({f[i].date : i \in DOMAIN f})

(* -------------------------- _determine_base_date ----------------------- *)
DetermineBaseDate(spec_date, f) ==
    IF spec_date # NoDate THEN spec_date ELSE QueryMinDate(f)

(* ------------------------ calculate_cavallo_index ---------------------- *)
(* the slice all_pids[i:i + batch_size] *)
BatchSliceOverlap(pids, i, size) ==
    SubSeq(pids, i + 1, IF i + size + 1 < Len(pids) THEN i + size + 1 ELSE Len(pids))
BatchSlice(pids, i, size) ==
    SubSeq(pids, i + 1, IF i + size < Len(pids) THEN i + size ELSE Len(pids))

(* df.merge(base_df, on='product_id', how='inner') *)
JoinBase(rows, bp) ==
    LET Known(r) == HasKey(bp, r.product_id)
        kept == SelectSeq(rows, Known)
    IN  [i \in DOMAIN kept |->
            [date |-> kept[i].date, price |-> kept[i].price,
             base_price |-> Get(bp, kept[i].product_id)]]

(* df[(df['price'] > 0) & (df['base_price'] > 0)] *)
SurvivesNoPriceTest(r) == r.base_price > 0
Survives(r) == r.price > 0 /\ r.base_price > 0

RECURSIVE ProdOf(_, _)
ProdOf(rows, field) ==
    IF rows = <<>> THEN 1 ELSE Head(rows)[field] * ProdOf(Tail(rows), field)

(* exp(mean(log(price / base_price))) * 100 over the rows of one date *)
GeoIndex(rows) ==
    Geo(ProdOf(rows, "price"), ProdOf(rows, "base_price"), Len(rows))

(* groupby('date') ... to_dict(orient='records') *)
CavalloRecords(rows, bp, base) ==
    LET df == SelectSeq(JoinBase(rows, bp), Survives)
        ds == SortedSeq({df[i].date : i \in DOMAIN df})
    IN  [k \in DOMAIN ds |->
            LET OfDate(r) == r.date = ds[k]
            IN  [date |-> Strftime(ds[k]),
                 cavallo_index |-> GeoIndex(SelectSeq(df, OfDate)),
                 base_date |-> Strftime(base)]]

(* except Exception: log, return [] *)
CavalloReraise(name) ==
    /\ cav_pc' = "raised"
    /\ cav_exc' = name
    /\ UNCHANGED cavallo_indices
CavalloExcept(name) ==
    /\ cav_pc' = "returned"
    /\ cav_exc' = name
    /\ cavallo_indices' = <<>>

CavDetermineBaseDate ==
    /\ cav_pc = "start"
    /\ \/ /\ cav_base' = DetermineBaseDate(specified, facts)
          /\ cav_pc' = "base_prices"
          /\ UNCHANGED <<cavallo_indices, cav_exc>>
       \/ /\ specified = NoDate
          /\ CavalloExcept("RetrievalFailure")
          /\ UNCHANGED cav_base
    /\ UNCHANGED <<base_prices, all_price_rows, cav_i, inVars, tmVars, mgVars>>

CavGetBasePrices ==
    /\ cav_pc = "base_prices"
    /\ \/ LET bp == Dict(QueryBasePrices(facts, cav_base))
          IN  IF bp = <<>>
              THEN /\ CavalloExcept("NoBasePrices")
                   /\ UNCHANGED base_prices
              ELSE /\ base_prices' = bp
                   /\ cav_pc' = "batch"
                   /\ UNCHANGED <<cavallo_indices, cav_exc>>
       \/ /\ CavalloExcept("RetrievalFailure")
          /\ UNCHANGED base_prices
    /\ UNCHANGED <<cav_base, all_price_rows, cav_i, inVars, tmVars, mgVars>>

CavFetchBatch ==
    /\ cav_pc = "batch"
    /\ cav_i < Len(base_prices)
    /\ \/ /\ all_price_rows' = all_price_rows \o
                QueryPricesIn(facts, BatchSlice(Keys(base_prices), cav_i, batch_size))
          /\ cav_i' = cav_i + batch_size
          /\ UNCHANGED <<cav_pc, cavallo_indices, cav_exc>>
       \/ /\ CavalloExcept("RetrievalFailure")
          /\ UNCHANGED <<all_price_rows, cav_i>>
    /\ UNCHANGED <<cav_base, base_prices, inVars, tmVars, mgVars>>

CavCompute ==
    /\ cav_pc = "batch"
    /\ cav_i >= Len(base_prices)
    /\ IF all_price_rows = <<>>
       THEN CavalloExcept("NoPriceData")
       ELSE /\ cavallo_indices' = CavalloRecords(all_price_rows, base_prices, cav_base)
            /\ cav_pc' = "returned"
            /\ UNCHANGED cav_exc
    /\ UNCHANGED <<cav_base, base_prices, all_price_rows, cav_i, inVars, tmVars, mgVars>>

CavalloNext ==
    \/ CavDetermineBaseDate
    \/ CavGetBasePrices
    \/ CavFetchBatch
    \/ CavCompute

(* ------------------------- calculate_tmall_index ----------------------- *)
(* category_weights.get(cat_id, 0) *)
WeightOf(cw, c) == IF HasKey(cw, c) THEN Get(cw, c) ELSE 0

(* if cat_id in base_avg and base_avg[cat_id] > 0 *)
Counts(ba, c) == HasKey(ba, c) /\ Get(ba, c)[1] > 0

(* the loop over current_avg.items(): acc is [ws |-> weighted_sum,         *)
(* tw |-> total_weight]                                                    *)
RECURSIVE AccumulateUnweighted(_, _, _, _)
AccumulateUnweighted(acc, items, ba, cw) ==
    IF items = <<>> THEN acc
    ELSE LET c == Head(items)[1]
             curr == Head(items)[2]
         IN  IF Counts(ba, c)
             THEN LET weight == WeightOf(cw, c)
                      ratio == RatDiv(curr, Get(ba, c))
                  IN  AccumulateUnweighted([ws |-> RatAdd(acc.ws, ratio),
                                            tw |-> acc.tw + weight],
                                           Tail(items), ba, cw)
             ELSE AccumulateUnweighted(acc, Tail(items), ba, cw)
RECURSIVE Accumulate(_, _, _, _)
Accumulate(acc, items, ba, cw) ==
    IF items = <<>> THEN acc
    ELSE LET c == Head(items)[1]
             curr == Head(items)[2]
         IN  IF Counts(ba, c)
             THEN LET weight == WeightOf(cw, c)
                      ratio == RatDiv(curr, Get(ba, c))
                  IN  Accumulate([ws |-> RatAdd(acc.ws, RatMul(ratio, <<weight, 1>>)),
                                  tw |-> acc.tw + weight],
                                 Tail(items), ba, cw)
             ELSE Accumulate(acc, Tail(items), ba, cw)

(* (weighted_sum / total_weight) * 100 if total_weight > 0 else 0, rounded *)
TmallIndexNoScale(ca, ba, cw) ==
    LET acc == Accumulate([ws |-> <<0, 1>>, tw |-> 0], ca, ba, cw)
    IN  IF acc.tw > 0
        THEN Dec4(Round4(<<acc.ws[1], acc.ws[2] * acc.tw>>))
        ELSE Dec4(0)
TmallIndexNoneOnZero(ca, ba, cw) ==
    LET acc == Accumulate([ws |-> <<0, 1>>, tw |-> 0], ca, ba, cw)
    IN  IF acc.tw > 0
        THEN Dec4(Round4(<<acc.ws[1] * 100, acc.ws[2] * acc.tw>>))
        ELSE None
TmallIndex(ca, ba, cw) ==
    LET acc == Accumulate([ws |-> <<0, 1>>, tw |-> 0], ca, ba, cw)
    IN  IF acc.tw > 0
        THEN Dec4(Round4(<<acc.ws[1] * 100, acc.ws[2] * acc.tw>>))
        ELSE Dec4(0)

(* except Exception: log, return [] *)
TmallReturnPartial(name) ==
    /\ tm_pc' = "returned"
    /\ tm_exc' = name
    /\ tmall_indices' = results
TmallExcept(name) ==
    /\ tm_pc' = "returned"
    /\ tm_exc' = name
    /\ tmall_indices' = <<>>

TmDetermineBaseDateShared ==
    /\ tm_pc = "start"
    /\ \/ /\ tm_base' = DetermineBaseDate(specified, facts)
          /\ specified' = tm_base'
          /\ tm_pc' = "weights"
          /\ UNCHANGED <<tmall_indices, tm_exc>>
       \/ /\ specified = NoDate
          /\ TmallExcept("RetrievalFailure")
          /\ UNCHANGED <<tm_base, specified>>
    /\ UNCHANGED <<category_weights, base_avg, dates, tm_k, results, tm_log,
                   facts, categories, batch_size, cavVars, mgVars>>
TmDetermineBaseDate ==
    /\ tm_pc = "start"
    /\ \/ /\ tm_base' = DetermineBaseDate(specified, facts)
          /\ tm_pc' = "weights"
          /\ UNCHANGED <<tmall_indices, tm_exc>>
       \/ /\ specified = NoDate
          /\ TmallExcept("RetrievalFailure")
          /\ UNCHANGED tm_base
    /\ UNCHANGED <<category_weights, base_avg, dates, tm_k, results, tm_log,
                   inVars, cavVars, mgVars>>

TmGetCategoryWeights ==
    /\ tm_pc = "weights"
    /\ \/ LET cw == Dict(QueryCategoryWeights(categories))
          IN  IF cw = <<>>
              THEN /\ TmallExcept("NoWeights")
                   /\ UNCHANGED category_weights
              ELSE /\ category_weights' = cw
                   /\ tm_pc' = "base_avg"
                   /\ UNCHANGED <<tmall_indices, tm_exc>>
       \/ /\ TmallExcept("RetrievalFailure")
          /\ UNCHANGED category_weights
    /\ UNCHANGED <<tm_base, base_avg, dates, tm_k, results, tm_log,
                   inVars, cavVars, mgVars>>

TmGetBaseAveragesNoCheck ==
    /\ tm_pc = "base_avg"
    /\ \/ /\ base_avg' = Dict(QueryCategoryAverages(facts, tm_base))
          /\ tm_pc' = "dates"
          /\ UNCHANGED <<tmall_indices, tm_exc>>
       \/ /\ TmallExcept("RetrievalFailure")
          /\ UNCHANGED base_avg
    /\ UNCHANGED <<tm_base, category_weights, dates, tm_k, results, tm_log,
                   inVars, cavVars, mgVars>>
TmGetBaseAverages ==
    /\ tm_pc = "base_avg"
    /\ \/ LET ba == Dict(QueryCategoryAverages(facts, tm_base))
          IN  IF ba = <<>>
              THEN /\ TmallExcept("NoBaseAverages")
                   /\ UNCHANGED base_avg
              ELSE /\ base_avg' = ba
                   /\ tm_pc' = "dates"
                   /\ UNCHANGED <<tmall_indices, tm_exc>>
       \/ /\ TmallExcept("RetrievalFailure")
          /\ UNCHANGED base_avg
    /\ UNCHANGED <<tm_base, category_weights, dates, tm_k, results, tm_log,
                   inVars, cavVars, mgVars>>

TmGetAllDates ==
    /\ tm_pc = "dates"
    /\ \/ /\ dates' = QueryAllDates(facts)
          /\ tm_pc' = "loop"
          /\ UNCHANGED <<tmall_indices, tm_exc>>
       \/ /\ TmallExcept("RetrievalFailure")
          /\ UNCHANGED dates
    /\ UNCHANGED <<tm_base, category_weights, base_avg, tm_k, results, tm_log,
                   inVars, cavVars, mgVars>>

(* the body of `for date in dates` once current_avg is there:              *)
(* `if not current_avg: continue`, else one record appended to results     *)
WithDateNoSkip(res, date, current_avg, ba, cw, base) ==
    Append(res, [date |-> Strftime(date),
                 tmall_index |-> TmallIndex(current_avg, ba, cw),
                 base_date |-> Strftime(base)])
WithDate(res, date, current_avg, ba, cw, base) ==
    IF current_avg = <<>>
    THEN res
    ELSE Append(res, [date |-> Strftime(date),
                      tmall_index |-> TmallIndex(current_avg, ba, cw),
                      base_date |-> Strftime(base)])

(* one iteration of `for date in dates`.  The fact source is outside the   *)
(* program: by the time a date's averages are asked for, the query returns *)
(* the date's rows, or none (they are gone), or it raises.                 *)
TmDate ==
    /\ tm_pc = "loop"
    /\ tm_k < Len(dates)
    /\ LET date == dates[tm_k + 1]
       IN  \/ \E answer \in {QueryCategoryAverages(facts, date), <<>>} :
                LET current_avg == Dict(answer)
                IN  /\ tm_log' = Append(tm_log, [date |-> date, outcome |-> "rows",
                                                 avg |-> current_avg])
                    /\ tm_k' = tm_k + 1
                    /\ results' = WithDate(results, date, current_avg, base_avg,
                                           category_weights, tm_base)
                    /\ UNCHANGED <<tm_pc, tmall_indices, tm_exc>>
           \/ /\ TmallExcept("RetrievalFailure")
              /\ tm_log' = Append(tm_log, [date |-> date, outcome |-> "raise",
                                           avg |-> <<>>])
              /\ UNCHANGED <<tm_k, results>>
    /\ UNCHANGED <<tm_base, category_weights, base_avg, dates, inVars, cavVars, mgVars>>

TmReturn ==
    /\ tm_pc = "loop"
    /\ tm_k >= Len(dates)
    /\ tmall_indices' = results
    /\ tm_pc' = "returned"
    /\ UNCHANGED <<tm_base, category_weights, base_avg, dates, tm_k, results, tm_log,
                   tm_exc, inVars, cavVars, mgVars>>

TmallNext ==
    \/ TmDetermineBaseDate
    \/ TmGetCategoryWeights
    \/ TmGetBaseAverages
    \/ TmGetAllDates
    \/ TmDate
    \/ TmReturn

(* ------------- save_indices and save_indices_to_local_file ------------- *)
(* combined[date] = {'date': date, 'base_date': idx['base_date']} *)
NewRow(idx) ==
    [date |-> idx.date, base_date |-> idx.base_date,
     cavallo_index |-> Missing, tmall_index |-> Missing]

(* one iteration of a merge loop: locate or create the row of idx['date'], *)
(* then combined[date][field] = idx.get(field, 0.0)                        *)
PutOverwriteBase(combined, idx, field) ==
    LET c1 == IF \E i \in DOMAIN combined : combined[i].date = idx.date
              THEN combined ELSE Append(combined, NewRow(idx))
    IN  [i \in DOMAIN c1 |->
            IF c1[i].date = idx.date
            THEN [c1[i] EXCEPT ![field] = idx[field], !.base_date = idx.base_date]
            ELSE c1[i]]
PutRecreate(combined, idx, field) ==
    LET c1 == IF \E i \in DOMAIN combined : combined[i].date = idx.date
              THEN combined ELSE Append(combined, NewRow(idx))
    IN  [i \in DOMAIN c1 |->
            IF c1[i].date = idx.date
            THEN [NewRow(idx) EXCEPT ![field] = idx[field]]
            ELSE c1[i]]
Put(combined, idx, field) ==
    LET c1 == IF \E i \in DOMAIN combined : combined[i].date = idx.date
              THEN combined ELSE Append(combined, NewRow(idx))
    IN  [i \in DOMAIN c1 |->
            IF c1[i].date = idx.date
            THEN [c1[i] EXCEPT ![field] = idx[field]]
            ELSE c1[i]]

RECURSIVE PutAll(_, _, _)
PutAll(combined, indices, field) ==
    IF indices = <<>> THEN combined
    ELSE PutAll(Put(combined, Head(indices), field), Tail(indices), field)

(* the two loops over cavallo_indices and tmall_indices *)
Combine(cav, tm) ==
    PutAll(PutAll(<<>>, cav, "cavallo_index"), tm, "tmall_index")

(* float(values.get(k)) if values.get(k) is not None else None *)
FloatOrNone(v) == IF v = Missing THEN None ELSE v

(* float(vals.get(k, 0.0)) *)
FloatOrZero(v) == IF v = Missing THEN Dec4(0) ELSE v

(* the list data of save_indices *)
SinkData(combined) ==
    [i \in DOMAIN combined |->
        [date |-> Strptime(combined[i].date),
         cavallo_index |-> FloatOrNone(combined[i].cavallo_index),
         tmall_index |-> FloatOrNone(combined[i].tmall_index),
         base_date |-> Strptime(combined[i].base_date)]]

(* the list records of save_indices_to_local_file *)
CsvRecords(combined) ==
    [i \in DOMAIN combined |->
        [date |-> combined[i].date,
         cavallo_index |-> FloatOrZero(combined[i].cavallo_index),
         tmall_index |-> FloatOrZero(combined[i].tmall_index),
         base_date |-> combined[i].base_date]]

(* calculator.save_indices(cavallo_indices, tmall_indices): insert_data is *)
(* called when data is not empty, and what it raises is raised again       *)
(* except Exception: log, raise; main logs and raises again *)
SaveSwallow(name) ==
    /\ mg_pc' = "local"
    /\ mg_exc' = name
SaveExcept(name) ==
    /\ mg_pc' = "raised"
    /\ mg_exc' = name

SaveIndices ==
    /\ mg_pc = "save"
    /\ LET data == SinkData(Combine(cav_in, tm_in))
       IN  \/ /\ sink_rows' = data
              /\ mg_pc' = "local"
              /\ UNCHANGED mg_exc
           \/ /\ data # <<>>
              /\ sink_rows' = data
              /\ SaveExcept("InsertFailure")
    /\ UNCHANGED <<cav_in, tm_in, csv_rows, uploaded, inVars, cavVars, tmVars>>

(* save_indices_to_local_file(cavallo_indices, tmall_indices, filepath) *)
SaveIndicesToLocalFile ==
    /\ mg_pc = "local"
    /\ csv_rows' = CsvRecords(Combine(cav_in, tm_in))
    /\ mg_pc' = "upload"
    /\ UNCHANGED <<cav_in, tm_in, sink_rows, mg_exc, uploaded, inVars, cavVars, tmVars>>

(* minio.upload_dataframe of the two lists; upload_dataframe logs an       *)
(* S3Error and does not raise it                                           *)
UploadResults ==
    /\ mg_pc = "upload"
    /\ \E stored \in BOOLEAN :
         uploaded' = IF stored THEN <<cav_in, tm_in>> ELSE uploaded
    /\ mg_pc' = "done"
    /\ UNCHANGED <<cav_in, tm_in, sink_rows, csv_rows, mg_exc, inVars, cavVars, tmVars>>

MergeNext ==
    \/ SaveIndices
    \/ SaveIndicesToLocalFile
    \/ UploadResults

(* ------------------------------ idle parts ----------------------------- *)
CavIdle ==
    /\ cav_pc = "idle" /\ cav_base = NoDate /\ base_prices = <<>>
    /\ all_price_rows = <<>> /\ cav_i = 0 /\ cavallo_indices = <<>> /\ cav_exc = ""
TmIdle ==
    /\ tm_pc = "idle" /\ tm_base = NoDate /\ category_weights = <<>>
    /\ base_avg = <<>> /\ dates = <<>> /\ tm_k = 0 /\ results = <<>>
    /\ tm_log = <<>> /\ tmall_indices = <<>> /\ tm_exc = ""
MgIdle ==
    /\ mg_pc = "idle" /\ cav_in = <<>> /\ tm_in = <<>>
    /\ sink_rows = <<>> /\ csv_rows = <<>> /\ mg_exc = "" /\ uploaded = <<>>

(* ----------------- specification: the Cavallo engine alone ------------- *)
FactRow(d, p, c, x) == [date |-> d, product_id |-> p, category_id |-> c, price |-> x]

CavFactRows == {FactRow(d, p, 1, x) : d \in Dates, p \in Products, x \in Prices}

CavalloInit ==
    /\ facts \in SeqsUpTo(CavFactRows, MaxRows)
    /\ categories = <<>>
    /\ specified \in {NoDate} \cup Dates
    /\ batch_size \in 1..MaxBatch
    /\ cav_pc = "start" /\ cav_base = NoDate /\ base_prices = <<>>
    /\ all_price_rows = <<>> /\ cav_i = 0 /\ cavallo_indices = <<>> /\ cav_exc = ""
    /\ TmIdle
    /\ MgIdle

SpecCavallo == CavalloInit /\ [][CavalloNext]_vars

(* ------------------ specification: the Tmall engine alone -------------- *)
(* averages do not depend on the order of the rows: one order per multiset *)
RowLeq(r, s) ==
    \/ r.date < s.date
    \/ r.date = s.date /\ r.category_id < s.category_id
    \/ r.date = s.date /\ r.category_id = s.category_id /\ r.price <= s.price

TmFactRows == {FactRow(d, "p1", c, x) : d \in Dates, c \in Categories, x \in Prices}

CategoryTables ==
    {SortedPairs(w) : w \in UNION {[C -> Weights] : C \in SUBSET Categories}}

(* two categories priced 10 and 20 on the first day, 12 and 20 on the next *)
ExampleFacts ==
    <<FactRow(1, "p1", 1, 10), FactRow(1, "p1", 2, 20),
      FactRow(2, "p1", 1, 12), FactRow(2, "p1", 2, 20)>>

TmallInit ==
    /\ facts \in {f \in SeqsUpTo(TmFactRows, MaxRows) :
                    \A i \in 1..(Len(f) - 1) : RowLeq(f[i], f[i + 1])}
                 \cup {ExampleFacts}
    /\ categories \in CategoryTables
    /\ specified \in {NoDate} \cup Dates
    /\ batch_size = 1
    /\ tm_pc = "start" /\ tm_base = NoDate /\ category_weights = <<>>
    /\ base_avg = <<>> /\ dates = <<>> /\ tm_k = 0 /\ results = <<>>
    /\ tm_log = <<>> /\ tmall_indices = <<>> /\ tm_exc = ""
    /\ CavIdle
    /\ MgIdle

SpecTmall == TmallInit /\ [][TmallNext]_vars

(* --------------- specification: the two save functions alone ----------- *)
(* the lists an engine can return: one record per date, dates ascending    *)
MergeBaseDates == {1, 2}
CavValues == {Geo(1, 1, 1), Geo(2, 1, 1)}
TmValues == {Dec4(0), Dec4(1000000)}

IndexRecord(d, field, value, base) ==
    IF field = "cavallo_index"
    THEN [date |-> Strftime(d), cavallo_index |-> value, base_date |-> Strftime(base)]
    ELSE [date |-> Strftime(d), tmall_index |-> value, base_date |-> Strftime(base)]

RecordListsOn(D, field, Values) ==
    LET ds == SortedSeq(D)
    IN  {[k \in DOMAIN ds |-> IndexRecord(ds[k], field, pick[ds[k]][1], pick[ds[k]][2])] :
            pick \in [D -> Values \X MergeBaseDates]}

MergeInit ==
    /\ facts = <<>> /\ categories = <<>> /\ specified = NoDate /\ batch_size = 1
    /\ CavIdle
    /\ TmIdle
    /\ mg_pc = "save"
    /\ cav_in \in UNION {RecordListsOn(D, "cavallo_index", CavValues) : D \in SUBSET Dates}
    /\ tm_in \in UNION {RecordListsOn(D, "tmall_index", TmValues) : D \in SUBSET Dates}
    /\ sink_rows = <<>> /\ csv_rows = <<>> /\ mg_exc = "" /\ uploaded = <<>>

SpecMerge == MergeInit /\ [][MergeNext]_vars

(* ------- specification: each operation, called on any of its inputs ---- *)
Init == CavalloInit \/ TmallInit \/ MergeInit

Next == CavalloNext \/ TmallNext \/ MergeNext

Spec == Init /\ [][Next]_vars

(* ========================= properties: the merge ======================= *)
HasRecord(list, s) == \E k \in DOMAIN list : list[k].date = s
RecordOf(list, s) == list[CHOOSE k \in DOMAIN list : list[k].date = s]
MergeSaved == mg_pc \in {"local", "raised", "done"}
MergeDone == mg_pc \in {"upload", "done"}

(* C1: in every row save_indices hands to the sink and in every row        *)
(* save_indices_to_local_file writes, cavallo_index is 0.0 when the        *)
(* Cavallo list has no record of the row's date and tmall_index is 0.0     *)
(* when the Tmall list has none: never None, never missing.                *)
C1_AbsentFieldIsZero ==
    /\ \A i \in DOMAIN sink_rows :
         /\ ~HasRecord(cav_in, Strftime(sink_rows[i].date))
               => sink_rows[i].cavallo_index = Dec4(0)
         /\ ~HasRecord(tm_in, Strftime(sink_rows[i].date))
               => sink_rows[i].tmall_index = Dec4(0)
    /\ \A i \in DOMAIN csv_rows :
         /\ ~HasRecord(cav_in, csv_rows[i].date) => csv_rows[i].cavallo_index = Dec4(0)
         /\ ~HasRecord(tm_in, csv_rows[i].date) => csv_rows[i].tmall_index = Dec4(0)

(* C2: the rows handed to the sink and the rows written to the CSV are in  *)
(* ascending date order, whatever dates the two (ascending) lists hold.    *)
C2_RowsAscendByDate ==
    /\ \A i, j \in DOMAIN sink_rows : i < j => sink_rows[i].date < sink_rows[j].date
    /\ \A i, j \in DOMAIN csv_rows : i < j => StrLess(csv_rows[i].date, csv_rows[j].date)

(* C3: the merge yields exactly one row per date of either list and no     *)
(* other row; the row of a date carries the value of each list that has a  *)
(* record of the date, and the base_date of the first record seen for the  *)
(* date (the Cavallo record when there is one).                            *)
C3_RowsOf(rows, Str(_)) ==
    /\ {Str(rows[i].date) : i \in DOMAIN rows}
          = {cav_in[k].date : k \in DOMAIN cav_in} \cup {tm_in[k].date : k \in DOMAIN tm_in}
    /\ \A i, j \in DOMAIN rows : rows[i].date = rows[j].date => i = j
    /\ \A i \in DOMAIN rows :
         LET s == Str(rows[i].date)
         IN  /\ HasRecord(cav_in, s)
                  => /\ rows[i].cavallo_index = RecordOf(cav_in, s).cavallo_index
                     /\ Str(rows[i].base_date) = RecordOf(cav_in, s).base_date
             /\ HasRecord(tm_in, s)
                  => rows[i].tmall_index = RecordOf(tm_in, s).tmall_index
             /\ HasRecord(tm_in, s) /\ ~HasRecord(cav_in, s)
                  => Str(rows[i].base_date) = RecordOf(tm_in, s).base_date

AsIs(s) == s

C3_OneRowPerDate ==
    /\ MergeSaved => C3_RowsOf(sink_rows, Strftime)
    /\ MergeDone => C3_RowsOf(csv_rows, AsIs)

(* a date of both lists whose two records differ in base_date, next to a   *)
(* date of one list only, both functions having run                        *)
C3_Witness ==
    /\ MergeDone
    /\ \E s \in {cav_in[k].date : k \in DOMAIN cav_in} :
         /\ HasRecord(tm_in, s)
         /\ RecordOf(tm_in, s).base_date # RecordOf(cav_in, s).base_date
    /\ \E s \in {tm_in[k].date : k \in DOMAIN tm_in} : ~HasRecord(cav_in, s)
    /\ Len(sink_rows) = 2 /\ Len(csv_rows) = 2

(* ===================== properties: the Cavallo engine ================== *)
CountIn(seq, x) == Cardinality({i \in DOMAIN seq : seq[i] = x})

(* the products with a row dated BaseDate, and the price rows of the table *)
PricedAtBase == {facts[i].product_id : i \in {j \in DOMAIN facts : facts[j].date = cav_base}}
PriceRows ==
    [i \in DOMAIN facts |->
        [date |-> facts[i].date, product_id |-> facts[i].product_id,
         price |-> facts[i].price]]
BatchLoopOver == cav_pc = "batch" /\ cav_i >= Len(base_prices)
CavalloReturned == cav_pc = "returned" /\ cav_exc = ""

(* C4: a query that raises inside either engine never leaves the engine:   *)
(* the call returns, and what it returns is the empty list, whatever       *)
(* records it had computed.                                                *)
C4_FailureReturnsEmpty ==
    /\ cav_pc # "raised" /\ tm_pc # "raised"
    /\ cav_exc # "" => cav_pc = "returned" /\ cavallo_indices = <<>>
    /\ tm_exc # "" => tm_pc = "returned" /\ tmall_indices = <<>>

(* a per-date averages query raised after a record had been computed *)
C4_Witness ==
    /\ tm_exc = "RetrievalFailure"
    /\ results # <<>>
    /\ tm_pc = "returned" /\ tmall_indices = <<>>

(* C5: when the batch loop is over, all_price_rows holds, as a multiset,   *)
(* exactly the rows of daily_prices of the products priced at BaseDate:    *)
(* each once, and no row of another product.                               *)
C5_BatchesEqualJoin ==
    BatchLoopOver =>
        \A row \in Range(PriceRows) \cup Range(all_price_rows) :
            CountIn(all_price_rows, row) =
                IF row.product_id \in PricedAtBase THEN CountIn(PriceRows, row) ELSE 0

(* two batches were fetched, of one product each *)
C5_Witness ==
    /\ BatchLoopOver
    /\ batch_size = 1 /\ Len(base_prices) = 2 /\ cav_i = 2
    /\ Len(all_price_rows) = 2

(* C6: the record calculate_cavallo_index returns for BaseDate has         *)
(* cavallo_index exactly 100.0 (the ratios of its rows multiply to 1).     *)
C6_BaseDateIndexIs100 ==
    CavalloReturned =>
        \A k \in DOMAIN cavallo_indices :
            cavallo_indices[k].date = Strftime(cav_base)
                => cavallo_indices[k].cavallo_index.num = cavallo_indices[k].cavallo_index.den

(* C8: when no query raises, a date has a record in the output exactly     *)
(* when some row of it has price > 0 and a product priced at BaseDate with *)
(* base price > 0; the record's index is > 0; the other rows raise nothing *)
C8_BasePrice(p) ==
    LET at == {i \in DOMAIN facts : facts[i].date = cav_base /\ facts[i].product_id = p}
    IN  facts[CHOOSE i \in at : \A j \in at : j <= i].price
C8_ValidRow(d) ==
    \E i \in DOMAIN facts :
        /\ facts[i].date = d
        /\ facts[i].product_id \in PricedAtBase
        /\ facts[i].price > 0
        /\ C8_BasePrice(facts[i].product_id) > 0

TmallReturned == tm_pc = "returned" /\ tm_exc = ""

(* the weight the categories table declares for c (0 when it has none) *)
DeclaredWeight(c) ==
    IF \E i \in DOMAIN categories : categories[i][1] = c
    THEN categories[CHOOSE i \in DOMAIN categories : categories[i][1] = c][2]
    ELSE 0

(* c has rows dated BaseDate and their average is > 0 (prices are >= 0) *)
BaseAvgPositive(c) ==
    \E i \in DOMAIN facts :
        facts[i].date = tm_base /\ facts[i].category_id = c /\ facts[i].price > 0

RECURSIVE SumWeights(_)
SumWeights(C) ==
    IF C = {} THEN 0
    ELSE LET c == CHOOSE x \in C : TRUE IN DeclaredWeight(c) + SumWeights(C \ {c})

(* total_weight of a date whose averages are avg *)
WeightTotal(avg) ==
    SumWeights({c \in Categories : HasKey(avg, c) /\ BaseAvgPositive(c)})

C7_Premise == \A c \in Categories : DeclaredWeight(c) # 0 => BaseAvgPositive(c)

(* C7 as stated: when every category with nonzero weight has a base-date   *)
(* average > 0, the record returned for BaseDate has tmall_index 100.0.    *)
C7_BaseDateIndexIs100 ==
    TmallReturned /\ C7_Premise =>
        \A k \in DOMAIN tmall_indices :
            tmall_indices[k].date = Strftime(tm_base)
                => tmall_indices[k].tmall_index = Dec4(1000000)

(* C7 amended: when moreover some category with a base-date average > 0    *)
(* has a positive weight, the record returned for BaseDate has             *)
(* tmall_index 100.0; when none has, total_weight is 0 and it has 0.       *)
C7_BaseDateIndexIs100WhenWeighted ==
    TmallReturned /\ C7_Premise =>
        \A k \in DOMAIN tmall_indices :
            tmall_indices[k].date = Strftime(tm_base)
                => tmall_indices[k].tmall_index =
                      IF \E c \in Categories : DeclaredWeight(c) > 0 /\ BaseAvgPositive(c)
                      THEN Dec4(1000000) ELSE Dec4(0)

(* a record for BaseDate with index 100.0 under weights 1 and 3 *)
C7_Witness ==
    /\ TmallReturned /\ C7_Premise
    /\ DeclaredWeight(1) = 1 /\ DeclaredWeight(2) = 3
    /\ \E k \in DOMAIN tmall_indices :
         /\ tmall_indices[k].date = Strftime(tm_base)
         /\ tmall_indices[k].tmall_index = Dec4(1000000)

(* C9: a date whose averages came back non-empty and whose total_weight is *)
(* 0 has a record, with tmall_index exactly 0, in results, and in the list *)
(* returned when no query raises.                                          *)
C9_ZeroWeightDateIsZero ==
    \A k \in DOMAIN tm_log :
        tm_log[k].avg # <<>> /\ WeightTotal(tm_log[k].avg) = 0 =>
            /\ HasRecord(results, Strftime(tm_log[k].date))
            /\ RecordOf(results, Strftime(tm_log[k].date)).tmall_index = Dec4(0)
            /\ TmallReturned =>
                 /\ HasRecord(tmall_indices, Strftime(tm_log[k].date))
                 /\ RecordOf(tmall_indices, Strftime(tm_log[k].date)).tmall_index = Dec4(0)

(* a returned list with a record of index 0 for a date whose category has  *)
(* no declared weight, next to a date with a positive index                *)
C9_Witness ==
    /\ TmallReturned
    /\ \E k \in DOMAIN tm_log :
         /\ tm_log[k].avg # <<>> /\ WeightTotal(tm_log[k].avg) = 0
         /\ RecordOf(tmall_indices, Strftime(tm_log[k].date)).tmall_index = Dec4(0)
    /\ \E k \in DOMAIN tmall_indices : tmall_indices[k].tmall_index.v > 0

(* C10 as stated: a date whose averages cannot be retrieved (the query     *)
(* raises or returns nothing) has no record, no error results, and every   *)
(* other date of the fact source still has its record in the output.       *)
C10_Unretrieved(k) == tm_log[k].outcome = "raise" \/ tm_log[k].avg = <<>>

C10_UnretrievableDateSkipped ==
    tm_pc = "returned" =>
        \A k \in DOMAIN tm_log :
            C10_Unretrieved(k) =>
                /\ ~HasRecord(tmall_indices, Strftime(tm_log[k].date))
                /\ \A j \in DOMAIN tm_log :
                     ~C10_Unretrieved(j) => HasRecord(tmall_indices, Strftime(tm_log[j].date))

(* C10 amended: a date whose averages query returns no rows is skipped:    *)
(* no record for it, no error, and when no query raises every date whose   *)
(* averages came back has its record in the output; a date whose averages  *)
(* query raises ends the call with the empty list.                         *)
C10_EmptyDateSkipped ==
    /\ \A k \in DOMAIN tm_log :
         /\ tm_log[k].outcome = "rows" /\ tm_log[k].avg = <<>>
              => ~HasRecord(results, Strftime(tm_log[k].date))
         /\ tm_log[k].outcome = "rows" /\ tm_log[k].avg # <<>>
              => HasRecord(results, Strftime(tm_log[k].date))
         /\ tm_log[k].outcome = "rows" /\ k = Len(tm_log) /\ tm_pc = "loop"
              => tm_exc = ""
         /\ tm_log[k].outcome = "raise"
              => tm_pc = "returned" /\ tmall_indices = <<>>
    /\ TmallReturned => tmall_indices = results /\ Len(tm_log) = Len(dates)

(* the first date was skipped and the second date's record was returned *)
C10_Witness ==
    /\ TmallReturned
    /\ Len(tm_log) = 2
    /\ tm_log[1].avg = <<>> /\ tm_log[2].avg # <<>>
    /\ Len(tmall_indices) = 1
    /\ tmall_indices[1].date = Strftime(tm_log[2].date)

(* ======================= properties: the base date ===================== *)
(* C11: _determine_base_date returns the explicit date when there is one   *)
(* (no query is made, so none can raise); otherwise the minimum date of    *)
(* the facts; over an empty fact source it returns no value: the call      *)
(* ends there with an error.                                               *)
C11_BaseDateResolved ==
    /\ cav_pc = "base_prices" =>
         /\ specified # NoDate => cav_base = specified
         /\ specified = NoDate /\ facts # <<>> =>
              /\ \E i \in DOMAIN facts : facts[i].date = cav_base
              /\ \A i \in DOMAIN facts : cav_base <= facts[i].date
         /\ ~(specified = NoDate /\ facts = <<>>)
    /\ tm_pc = "weights" =>
         /\ specified # NoDate => tm_base = specified
         /\ specified = NoDate /\ facts # <<>> =>
              /\ \E i \in DOMAIN facts : facts[i].date = tm_base
              /\ \A i \in DOMAIN facts : tm_base <= facts[i].date
         /\ ~(specified = NoDate /\ facts = <<>>)
    /\ specified # NoDate =>
         /\ cav_exc = "RetrievalFailure" => cav_base = specified
         /\ tm_exc = "RetrievalFailure" => tm_base = specified

(* ==================== properties: the save steps of main =============== *)
(* C12: when the insert of save_indices fails, the error leaves            *)
(* save_indices and main: the run ends raised, nothing was written to the  *)
(* local CSV and nothing was uploaded.                                     *)
C12_InsertFailureIsFatal ==
    mg_exc # "" =>
        /\ mg_pc = "raised"
        /\ csv_rows = <<>>
        /\ uploaded = <<>>
        /\ ~ENABLED SaveIndicesToLocalFile
        /\ ~ENABLED UploadResults

(* the insert of a non-empty data list failed *)
C12_Witness ==
    /\ mg_exc = "InsertFailure"
    /\ sink_rows # <<>>
    /\ mg_pc = "raised"

(* ===================== specification: the run of main ================== *)
(* tmall_indices = calculator.calculate_tmall_index(), the statement after *)
(* the return of calculate_cavallo_index                                   *)
MainCallTmall ==
    /\ cav_pc = "returned"
    /\ tm_pc = "idle"
    /\ tm_pc' = "start"
    /\ UNCHANGED <<tm_base, category_weights, base_avg, dates, tm_k, results,
                   tm_log, tmall_indices, tm_exc, inVars, cavVars, mgVars>>

(* calculator.save_indices(cavallo_indices, tmall_indices) *)
MainCallSaveIfBoth ==
    /\ cav_pc = "returned" /\ tm_pc = "returned"
    /\ mg_pc = "idle"
    /\ cavallo_indices # <<>> /\ tmall_indices # <<>>
    /\ mg_pc' = "save"
    /\ cav_in' = cavallo_indices
    /\ tm_in' = tmall_indices
    /\ UNCHANGED <<sink_rows, csv_rows, mg_exc, uploaded, inVars, cavVars, tmVars>>
MainCallSave ==
    /\ cav_pc = "returned" /\ tm_pc = "returned"
    /\ mg_pc = "idle"
    /\ mg_pc' = "save"
    /\ cav_in' = cavallo_indices
    /\ tm_in' = tmall_indices
    /\ UNCHANGED <<sink_rows, csv_rows, mg_exc, uploaded, inVars, cavVars, tmVars>>

(* the rows of daily_prices: a product belongs to one category *)
CategoryOf(p) == IF p = "p1" THEN 1 ELSE 2
MainFactRows == {FactRow(d, p, CategoryOf(p), x) : d \in Dates, p \in Products, x \in Prices}

(* PriceIndexCalculator(ch): no base date given, batch_size is the         *)
(* constant of calculate_cavallo_index                                     *)
MainInit ==
    /\ facts \in {f \in SeqsUpTo(MainFactRows, MaxRows) :
                    \A i \in 1..(Len(f) - 1) : RowLeq(f[i], f[i + 1])}
    /\ categories \in CategoryTables
    /\ specified = NoDate
    /\ batch_size = 1
    /\ cav_pc = "start" /\ cav_base = NoDate /\ base_prices = <<>>
    /\ all_price_rows = <<>> /\ cav_i = 0 /\ cavallo_indices = <<>> /\ cav_exc = ""
    /\ TmIdle
    /\ MgIdle

MainNext ==
    \/ CavalloNext
    \/ MainCallTmall
    \/ TmallNext
    \/ MainCallSave
    \/ MergeNext

SpecMain == MainInit /\ [][MainNext]_vars

(* C13: an engine that returned the empty list stops nothing: main goes on *)
(* to the other engine and to save_indices, and when one list is empty the *)
(* rows handed to the sink are the records of the other list, one row per  *)
(* record, in the same order, with the record's date and value.            *)
C13_SinkRowsOf(list, field) ==
    /\ Len(sink_rows) = Len(list)
    /\ \A k \in DOMAIN list :
         /\ sink_rows[k].date = Strptime(list[k].date)
         /\ sink_rows[k][field] = list[k][field]
         /\ sink_rows[k].base_date = Strptime(list[k].base_date)

C13_EmptyResultIsNotFatal ==
    /\ cav_pc = "returned" /\ tm_pc = "idle" => ENABLED MainCallTmall
    /\ cav_pc = "returned" /\ tm_pc = "returned" /\ mg_pc = "idle" => ENABLED MainCallSave
    /\ mg_pc # "idle" => cav_in = cavallo_indices /\ tm_in = tmall_indices
    /\ MergeSaved /\ cavallo_indices = <<>> => C13_SinkRowsOf(tmall_indices, "tmall_index")
    /\ MergeSaved /\ tmall_indices = <<>> => C13_SinkRowsOf(cavallo_indices, "cavallo_index")

(* Cavallo failed, Tmall returned records, and they reached the sink *)
C13_Witness ==
    /\ MergeSaved
    /\ cav_exc # ""
    /\ cavallo_indices = <<>>
    /\ tmall_indices # <<>>
    /\ C13_SinkRowsOf(tmall_indices, "tmall_index")

(* ================== properties: the merge, list by list ================ *)
(* C14: the merge of (A, []) and the merge of (A, B) give every date of A  *)
(* the same cavallo_index, the one of A's record, in the sink rows and in  *)
(* the CSV rows; no row of the first merge has a tmall value of a record,  *)
(* and a row of the second has one exactly when B has a record of its date.*)
C14_MergeKeepsCavallo ==
    LET alone == Combine(cav_in, <<>>)
        both == Combine(cav_in, tm_in)
    IN  /\ \A k \in DOMAIN cav_in :
             LET s == cav_in[k].date
             IN  /\ HasRecord(alone, s) /\ HasRecord(both, s)
                 /\ RecordOf(alone, s).cavallo_index = cav_in[k].cavallo_index
                 /\ RecordOf(both, s).cavallo_index = RecordOf(alone, s).cavallo_index
                 /\ MergeSaved =>
                      /\ HasRecord(sink_rows, Strptime(s))
                      /\ RecordOf(sink_rows, Strptime(s)).cavallo_index
                            = RecordOf(SinkData(alone), Strptime(s)).cavallo_index
                 /\ MergeDone =>
                      /\ HasRecord(csv_rows, s)
                      /\ RecordOf(csv_rows, s).cavallo_index
                            = RecordOf(CsvRecords(alone), s).cavallo_index
        /\ \A i \in DOMAIN alone : alone[i].tmall_index = Missing
        /\ \A i \in DOMAIN both :
             both[i].tmall_index # Missing <=> HasRecord(tm_in, both[i].date)
        /\ MergeSaved =>
             \A i \in DOMAIN sink_rows :
                sink_rows[i].tmall_index # None
                   <=> HasRecord(tm_in, Strftime(sink_rows[i].date))

(* A has two dates, B has a record of one of them, both files written *)
C14_Witness ==
    /\ MergeDone
    /\ Len(cav_in) = 2 /\ Len(tm_in) = 1
    /\ HasRecord(cav_in, tm_in[1].date)
    /\ Len(csv_rows) = 2 /\ Len(sink_rows) = 2

(* ============ specification: the two engines, steps interleaved ======== *)
(* both calls under way on one calculator, save_indices after both *)
ParInit ==
    /\ facts \in {f \in SeqsUpTo(MainFactRows, MaxRows) :
                    \A i \in 1..(Len(f) - 1) : RowLeq(f[i], f[i + 1])}
    /\ categories \in CategoryTables
    /\ specified = NoDate
    /\ batch_size = 1
    /\ cav_pc = "start" /\ cav_base = NoDate /\ base_prices = <<>>
    /\ all_price_rows = <<>> /\ cav_i = 0 /\ cavallo_indices = <<>> /\ cav_exc = ""
    /\ tm_pc = "start" /\ tm_base = NoDate /\ category_weights = <<>>
    /\ base_avg = <<>> /\ dates = <<>> /\ tm_k = 0 /\ results = <<>>
    /\ tm_log = <<>> /\ tmall_indices = <<>> /\ tm_exc = ""
    /\ MgIdle

ParNext ==
    \/ CavalloNext
    \/ TmallNext
    \/ MainCallSave
    \/ MergeNext

SpecPar == ParInit /\ [][ParNext]_vars

(* what calculate_cavallo_index returns, alone, when no query raises *)
RECURSIVE C15_AllBatches(_, _, _, _)
C15_AllBatches(f, pids, i, size) ==
    IF i >= Len(pids) THEN <<>>
    ELSE QueryPricesIn(f, BatchSlice(pids, i, size))
            \o C15_AllBatches(f, pids, i + size, size)

C15_CavalloAlone(f, spec_date, size) ==
    LET base == DetermineBaseDate(spec_date, f)
        bp == Dict(QueryBasePrices(f, base))
        rows == C15_AllBatches(f, Keys(bp), 0, size)
    IN  IF bp = <<>> \/ rows = <<>> THEN <<>> ELSE CavalloRecords(rows, bp, base)

(* what calculate_tmall_index returns, alone, on the answers of log *)
RECURSIVE C15_Loop(_, _, _, _, _)
C15_Loop(res, log, ba, cw, base) ==
    IF log = <<>> THEN res
    ELSE C15_Loop(WithDate(res, Head(log).date, Head(log).avg, ba, cw, base),
                  Tail(log), ba, cw, base)

C15_TmallAlone(f, cats, spec_date, log) ==
    LET base == DetermineBaseDate(spec_date, f)
        cw == Dict(QueryCategoryWeights(cats))
        ba == Dict(QueryCategoryAverages(f, base))
    IN  IF cw = <<>> \/ ba = <<>> THEN <<>> ELSE C15_Loop(<<>>, log, ba, cw, base)

C15_ResultsAsAlone ==
    /\ cav_pc = "returned" =>
         cavallo_indices = IF cav_exc # "" THEN <<>>
                           ELSE C15_CavalloAlone(facts, specified, batch_size)
    /\ tm_pc = "returned" =>
         /\ tmall_indices = IF tm_exc # "" THEN <<>>
                            ELSE C15_TmallAlone(facts, categories, specified, tm_log)
         /\ tm_exc = "" /\ tm_log # <<>> =>
              /\ [k \in DOMAIN tm_log |-> tm_log[k].date] = QueryAllDates(facts)
              /\ \A k \in DOMAIN tm_log :
                   tm_log[k].avg \in {Dict(QueryCategoryAverages(facts, tm_log[k].date)), <<>>}
    /\ mg_pc # "idle" =>
         /\ cav_pc = "returned" /\ tm_pc = "returned"
         /\ cav_in = cavallo_indices /\ tm_in = tmall_indices

(* C15: no step of either engine writes the fact source, the calculator's  *)
(* fields or a variable of the other engine; whatever the interleaving,    *)
(* each engine returns what it returns alone on the same facts (and the    *)
(* same query outcomes), and save_indices starts after both have returned  *)
(* and is given exactly their two lists.                                   *)
C15_EnginesDoNotInterfere ==
    /\ [][/\ inVars' = inVars
          /\ cavVars' = cavVars \/ tmVars' = tmVars
          /\ mgVars' # mgVars => cavVars' = cavVars /\ tmVars' = tmVars]_vars
    /\ []C15_ResultsAsAlone

(* Tmall ran between two steps of Cavallo, and both returned records *)
C15_Witness ==
    /\ cav_pc = "batch" /\ cav_i > 0
    /\ tm_pc = "returned" /\ tmall_indices # <<>>
    /\ cavallo_indices = <<>>
    /\ C15_CavalloAlone(facts, specified, batch_size) # <<>>

(* ==================== properties: the Tmall formula ==================== *)
(* the categories of a date that count: in the date's averages and in the  *)
(* base averages, with a base average above 0                              *)
C16_Counted(ca, ba) ==
    {c \in Range(Keys(ca)) \cap Range(Keys(ba)) : Get(ba, c)[1] > 0}

C16_Weight(cw, c) ==
    IF \E k \in DOMAIN cw : cw[k][1] = c
    THEN (CHOOSE w \in {cw[k][2] : k \in DOMAIN cw} : <<c, w>> \in Range(cw))
    ELSE 0

(* sum over S of (curr_avg(c) / base_avg(c)) * weight(c), as the fraction  *)
(* <<n, d>>, an average being <<sum, count>>                               *)
RECURSIVE C16_WeightedSum(_, _, _, _)
C16_WeightedSum(S, ca, ba, cw) ==
    IF S = {} THEN <<0, 1>>
    ELSE LET c == CHOOSE x \in S : TRUE
             rest == C16_WeightedSum(S \ {c}, ca, ba, cw)
             n == Get(ca, c)[1] * Get(ba, c)[2] * C16_Weight(cw, c)
             d == Get(ca, c)[2] * Get(ba, c)[1]
         IN  <<rest[1] * d + n * rest[2], rest[2] * d>>

RECURSIVE C16_WeightSum(_, _)
C16_WeightSum(S, cw) ==
    IF S = {} THEN 0
    ELSE LET c == CHOOSE x \in S : TRUE
         IN  C16_Weight(cw, c) + C16_WeightSum(S \ {c}, cw)

(* v / 10^4 is 100 * ws / tw to within half a unit of the fourth decimal *)
C16_IsRounded(v, ws, tw) ==
    LET diff == v * ws[2] * tw - 1000000 * ws[1]
    IN  /\ 2 * diff <= ws[2] * tw
        /\ -2 * diff <= ws[2] * tw

(* C16: every record calculate_tmall_index appends for a date whose total  *)
(* weight is above 0 carries 100 * (sum over C of ratio * weight) / (sum   *)
(* over C of weight), rounded to 4 decimals, C being the categories in the *)
(* date's averages and in the base averages with a base average above 0,   *)
(* and the weight of an undeclared category being 0.                       *)
C16_IndexIsWeightedMean ==
    \A k \in DOMAIN tm_log :
        LET ca == tm_log[k].avg
            S == C16_Counted(ca, base_avg)
            tw == C16_WeightSum(S, category_weights)
            s == Strftime(tm_log[k].date)
        IN  tm_log[k].outcome = "rows" /\ ca # <<>> /\ tw > 0 =>
              /\ HasRecord(results, s)
              /\ RecordOf(results, s).tmall_index.kind = "dec4"
              /\ C16_IsRounded(RecordOf(results, s).tmall_index.v,
                               C16_WeightedSum(S, ca, base_avg, category_weights), tw)
              /\ tm_pc = "returned" /\ tm_exc = "" =>
                   RecordOf(tmall_indices, s) = RecordOf(results, s)

(* weights 1 and 3, ratios 12/10 and 20/20: the index returned is 105 *)
C16_Witness ==
    /\ tm_pc = "returned"
    /\ facts = ExampleFacts
    /\ category_weights = <<<<1, 1>>, <<2, 3>>>>
    /\ HasRecord(tmall_indices, Strftime(2))
    /\ RecordOf(tmall_indices, Strftime(2)).tmall_index = Dec4(1050000)

(* ================= properties: a base date without facts =============== *)
C17_NoBaseFact ==
    \A i \in DOMAIN facts : facts[i].date # DetermineBaseDate(specified, facts)

(* C17: when no fact is dated BaseDate, calculate_cavallo_index stops at   *)
(* the base prices and calculate_tmall_index no later than the base        *)
(* averages: neither asks for the prices of a batch of products, for the   *)
(* dates or for the averages of a date, both return [] and neither raises. *)
C17_NoBaseFactReturnsEmpty ==
    C17_NoBaseFact =>
        /\ cav_pc \in {"idle", "start", "base_prices", "returned"}
        /\ base_prices = <<>> /\ cav_i = 0 /\ all_price_rows = <<>>
        /\ cavallo_indices = <<>>
        /\ cav_pc = "returned" => cav_exc \in {"RetrievalFailure", "NoBasePrices"}
        /\ tm_pc \in {"idle", "start", "weights", "base_avg", "returned"}
        /\ base_avg = <<>> /\ dates = <<>> /\ tm_log = <<>> /\ results = <<>>
        /\ tmall_indices = <<>>
        /\ tm_pc = "returned" =>
             tm_exc \in {"RetrievalFailure", "NoWeights", "NoBaseAverages"}

(* an explicit base date that is not in the data; there are weights *)
C17_Witness ==
    /\ specified # NoDate
    /\ facts # <<>>
    /\ C17_NoBaseFact
    /\ tm_pc = "returned"
    /\ tm_exc = "NoBaseAverages"
    /\ category_weights # <<>>

(* ================== properties: the lists the engines return =========== *)
C18_Ascending(list) ==
    \A i, j \in DOMAIN list : i < j => StrLess(list[i].date, list[j].date)

C18_BaseDateIs(list, base) ==
    \A i \in DOMAIN list : list[i].base_date = Strftime(base)

(* C18: the list each engine returns (and the list results of the Tmall    *)
(* loop while it grows) is strictly ascending by date, and each record's   *)
(* base_date is the date _determine_base_date gave at the start of the     *)
(* call.                                                                   *)
C18_ListsAscendWithBaseDate ==
    /\ C18_Ascending(cavallo_indices)
    /\ C18_BaseDateIs(cavallo_indices, cav_base)
    /\ cavallo_indices # <<>> => cav_base = DetermineBaseDate(specified, facts)
    /\ C18_Ascending(results)
    /\ C18_BaseDateIs(results, tm_base)
    /\ C18_Ascending(tmall_indices)
    /\ C18_BaseDateIs(tmall_indices, tm_base)
    /\ tmall_indices # <<>> => tm_base = DetermineBaseDate(specified, facts)

(* Tmall returned records of two dates, the base date being the later one *)
C18_Witness ==
    /\ tm_pc = "returned"
    /\ Len(tmall_indices) = 2
    /\ tm_base = 2
    /\ tmall_indices[1].base_date = Strftime(2)

(* ================ properties: the sink and the CSV file ================ *)
(* C19: for the same two lists the rows handed to the sink and the rows    *)
(* written to the CSV are the same: as many rows, in the same order, and   *)
(* row by row the same date, cavallo_index, tmall_index and base_date,     *)
(* also for a date that only one list has.                                 *)
C19_SinkRowsAreCsvRows ==
    MergeDone =>
        /\ Len(sink_rows) = Len(csv_rows)
        /\ \A i \in DOMAIN sink_rows :
             /\ Strftime(sink_rows[i].date) = csv_rows[i].date
             /\ sink_rows[i].cavallo_index = csv_rows[i].cavallo_index
             /\ sink_rows[i].tmall_index = csv_rows[i].tmall_index
             /\ Strftime(sink_rows[i].base_date) = csv_rows[i].base_date

=============================================================================
